---- MODULE Spec2Model ----
(***************************************************************************)
(* Model of datasources/aclu/build_classification_dict.py: the bill-number *)
(* normalizer, the year extractor, the issue categorizer, the state        *)
(* resolution and the row loop of build_classification_dict.               *)
(*                                                                         *)
(* A Python str is a sequence of one-character strings.  The missing-value *)
(* markers are one-element sequences whose element is not a character, so  *)
(* that they compare (unequal) with every str: NaN is what pandas puts in  *)
(* an empty cell, None is what normalize_bill_number returns for it.       *)
(*                                                                         *)
(* Characters are ASCII: str.upper, str.lower, \d and \s are modelled on    *)
(* the ASCII letters, digits and whitespace.  An exception that ends a     *)
(* call is the position "raised" of the caller; an operator that models a  *)
(* call that may raise returns the marker ValueError for it.               *)
(***************************************************************************)
EXTENDS Naturals, Sequences, FiniteSets, TLC

VARIABLES
    pc,           \* position of the driver that calls the code
    bill_name,    \* normalize_bill_number: its argument
    bill_ret,     \* normalize_bill_number: its return value
    bill_prev,    \* the return value of the call before a re-normalization
    status_date,  \* extract_year: its argument
    year_ret,     \* extract_year: its return value
    issues_str,   \* categorize_issues: its argument
    cat_ret,      \* categorize_issues: its return value (a list)
    state_name,   \* state resolution: row['State']
    state_ret,    \* state resolution: state_abbrev
    csv_rows,     \* build_classification_dict: the rows read_csv returned
    df,           \* build_classification_dict: the rows after the footer filter
    row_i,        \* build_classification_dict: rows of df already iterated
    records,      \* build_classification_dict: the records list
    out_df        \* build_classification_dict: the returned frame

vars == <<pc, bill_name, bill_ret, bill_prev, status_date, year_ret, issues_str,
          cat_ret, state_name, state_ret, csv_rows, df, row_i, records, out_df>>

-----------------------------------------------------------------------------
(* Values and character classes *)

NaN == <<"NaN">>
None == <<"None">>
Unset == <<"Unset">>
ValueError == <<"ValueError">>

isna(v) == v = NaN \/ v = None

UpperChars ==
    <<"A", "B", "C", "D", "E", "F", "G", "H", "I", "J", "K", "L", "M",
      "N", "O", "P", "Q", "R", "S", "T", "U", "V", "W", "X", "Y", "Z">>

LowerChars ==
    <<"a", "b", "c", "d", "e", "f", "g", "h", "i", "j", "k", "l", "m",
      "n", "o", "p", "q", "r", "s", "t", "u", "v", "w", "x", "y", "z">>

DigitChars == <<"0", "1", "2", "3", "4", "5", "6", "7", "8", "9">>

Range(s) == {s[i] : i \in 1..Len(s)}

\* [A-Z]
UpperSet == Range(UpperChars)

\* \d
DigitSet == Range(DigitChars)

\* \s and str.isspace() on ASCII: space, \t, \n, \r, \f, and the control characters
\* 0x0B (vertical tab), 0x1C, 0x1D, 0x1E, 0x1F, which the last five strings hold
SpaceSet == {" ", "\t", "\n", "\r", "\f", "", "", "", "", ""}

IsUpperAZ(c) == c \in UpperSet

IsDigit(c) == c \in DigitSet

IsSpace(c) == c \in SpaceSet

\* the letters str.upper() changes, with what it changes them to
ToUpper == [c \in Range(LowerChars) |->
               UpperChars[CHOOSE i \in 1..Len(LowerChars) : LowerChars[i] = c]]

\* the letters str.lower() changes, with what it changes them to
ToLower == [c \in Range(UpperChars) |->
               LowerChars[CHOOSE i \in 1..Len(UpperChars) : UpperChars[i] = c]]

UpperOf(c) == IF c \in DOMAIN ToUpper THEN ToUpper[c] ELSE c

LowerOf(c) == IF c \in DOMAIN ToLower THEN ToLower[c] ELSE c

upper(s) == [i \in 1..Len(s) |-> UpperOf(s[i])]

lower(s) == [i \in 1..Len(s) |-> LowerOf(s[i])]

\* s[i:] of Python with a 1-based i
From(s, i) == SubSeq(s, i, Len(s))

\* x in s, for strs
Contains(s, x) ==
    \E i \in 1..(Len(s) + 1) :
        /\ i + Len(x) - 1 <= Len(s)
        /\ SubSeq(s, i, i + Len(x) - 1) = x

\* the length of the longest run of characters of Class that starts at s[i]
RunLen(s, i, Class) ==
    LET Stops == {j \in i..(Len(s) + 1) : j = Len(s) + 1 \/ s[j] \notin Class}
    IN  (CHOOSE j \in Stops : \A k \in Stops : j <= k) - i

\* sys.int_info.default_max_str_digits: the longest digit string int() converts
IntMaxStrDigits == 4300

\* the value of a decimal digit character
DigitOf(c) == CHOOSE v \in 0..9 : DigitChars[v + 1] = c

\* int() of a decimal digit string raises ValueError beyond the digit limit
\* (leading zeros count)
IntRaises(ds) == Len(ds) > IntMaxStrDigits

\* int() of a decimal digit string. A Python int has no width: it is held as its
\* decimal digits, most significant first, without leading zeros (zero is <<0>>).
ParseInt(ds) ==
    IF IntRaises(ds) THEN ValueError
    ELSE LET v == [i \in 1..Len(ds) |-> DigitOf(ds[i])]
             z == RunLen(v, 1, {0})
         IN  IF z = Len(v) THEN <<0>> ELSE From(v, z + 1)

\* str() of a natural number
FormatInt(n) == [i \in 1..Len(n) |-> DigitChars[n[i] + 1]]

\* a natural number of a few digits as a number of the model
RECURSIVE IntValue(_)
IntValue(n) ==
    IF n = <<>> THEN 0
    ELSE 10 * IntValue(SubSeq(n, 1, Len(n) - 1)) + n[Len(n)]

-----------------------------------------------------------------------------
(* normalize_bill_number *)

\* re.match(r'L\.D\.?\s*(\d+)', bill_name): group 1, or <<>> when no match
MaineMatch(s) ==
    IF Len(s) >= 3 /\ SubSeq(s, 1, 3) = <<"L", ".", "D">>
    THEN LET p1 == IF Len(s) >= 4 /\ s[4] = "." THEN 5 ELSE 4
             p2 == p1 + RunLen(s, p1, SpaceSet)
             n  == RunLen(s, p2, DigitSet)
         IN  SubSeq(s, p2, p2 + n - 1)
    ELSE <<>>

\* re.sub(r'\(.*?\)', '', s): '.' does not match a newline
RECURSIVE RemoveParentheticals(_)
RemoveParentheticals(s) ==
    IF s = <<>> THEN <<>>
    ELSE LET Close == {j \in 2..Len(s) :
                          s[j] = ")" /\ \A k \in 2..(j - 1) : s[k] \notin {")", "\n"}}
         IN  IF s[1] = "(" /\ Close # {}
             THEN RemoveParentheticals(From(s, 1 + (CHOOSE j \in Close : TRUE)))
             ELSE <<s[1]>> \o RemoveParentheticals(Tail(s))

\* re.sub(r'\.', '', s)
RemovePeriods(s) == SelectSeq(s, LAMBDA c : c # ".")

\* re.sub(r'\s+', '', s)
RemoveSpaces(s) == SelectSeq(s, LAMBDA c : ~IsSpace(c))

\* Cleaned without the removal of periods
Cleaned_KeepPeriods(s) == RemoveSpaces(RemoveParentheticals(upper(s)))

\* the general normalization of lines 49-52
Cleaned(s) == RemoveSpaces(RemovePeriods(RemoveParentheticals(upper(s))))

\* StripLeadingZeros with the whole digit run kept
StripLeadingZeros_KeepZeros(s) ==
    LET k == RunLen(s, 1, UpperSet)
        m == RunLen(s, k + 1, DigitSet)
    IN  IF k >= 1 /\ m >= 1 THEN SubSeq(s, 1, k + m) ELSE s

\* StripLeadingZeros as a substitution that keeps what follows the digit run
StripLeadingZeros_KeepTail(s) ==
    LET k == RunLen(s, 1, UpperSet)
        m == RunLen(s, k + 1, DigitSet)
        z == RunLen(s, k + 1, {"0"})
        skip == IF z = m THEN m - 1 ELSE z
    IN  IF k >= 1 /\ m >= 1
        THEN SubSeq(s, 1, k) \o From(s, k + 1 + skip)
        ELSE s

\* re.match(r'([A-Z]+)0*(\d+)', s).groups() joined, or s itself when no match:
\* 0* is greedy but gives back one zero when the digit run is all zeros
StripLeadingZeros(s) ==
    LET k == RunLen(s, 1, UpperSet)
        m == RunLen(s, k + 1, DigitSet)
        z == RunLen(s, k + 1, {"0"})
        skip == IF z = m THEN m - 1 ELSE z
    IN  IF k >= 1 /\ m >= 1
        THEN SubSeq(s, 1, k) \o SubSeq(s, k + 1 + skip, k + m)
        ELSE s

\* str.strip()
strip(s) ==
    LET lead == RunLen(s, 1, SpaceSet)
        rest == From(s, lead + 1)
        Ends == {e \in 0..Len(rest) : \A i \in (e + 1)..Len(rest) : IsSpace(rest[i])}
        e == CHOOSE e \in Ends : \A f \in Ends : e <= f
    IN  SubSeq(rest, 1, e)

\* the return value, or ValueError when int() raises (line 46)
normalize_bill_number(s) ==
    IF isna(s) THEN None
    ELSE IF MaineMatch(s) # <<>>
         THEN IF IntRaises(MaineMatch(s))
              THEN ValueError
              ELSE <<"L", "D">> \o FormatInt(ParseInt(MaineMatch(s)))
         ELSE strip(StripLeadingZeros(Cleaned(s)))

-----------------------------------------------------------------------------
(* Inputs of the normalizer *)

MaxBody == 4

RECURSIVE StrsOver(_, _)
StrsOver(A, n) ==
    IF n = 0 THEN {<<>>}
    ELSE LET Shorter == StrsOver(A, n - 1)
         IN  Shorter \cup {Append(s, c) : s \in {t \in Shorter : Len(t) = n - 1}, c \in A}

BillHeads == { <<>>, <<"L", ".", "D">>, <<"l", ".", "d">> }

\* the last one is the vertical tab, 0x0B
BillBodyChars == {"b", "0", "7", ".", " ", "\n", "(", ")", ""}

\* a legislative-document name whose digit run is one digit beyond int()'s limit
LongDocumentName == <<"L", ".", "D", ".">> \o [i \in 1..(IntMaxStrDigits + 1) |-> "9"]

\* the examples of the docstring
DocstringNames ==
    { <<"S", ".", "3", "5", "0">>,
      <<"H", ".", "B", ".", "1", "5", "8">>,
      <<"S", ".", "F", ".", "4", "7", "3">>,
      <<"L", ".", "D", ".", " ", "1", "1", "3", "4", " ",
        "(", "S", ".", "P", ".", " ", "4", "6", "1", ")">>,
      <<"H", ".", "B", ".", " ", "2", "2", "9">>,
      <<"H", ".", "C", ".", "R", ".", "2", "0", "4", "2">>,
      <<"S", ".", "B", ".", "0", "0", "0", "9">> }

\* two parenthetical groups after a name
GroupTails ==
    { <<"(", ")", "(", ")">>,
      <<"(", "b", ")", "(", "7", ")">>,
      <<" ", "(", "b", ")", " ", "(", "7", ")">>,
      <<"(", "S", ".", "P", ".", " ", "4", ")", "(", "0", ")", ".">> }

GroupedNames ==
    {h \o b \o g : h \in BillHeads, b \in StrsOver(BillBodyChars, MaxBody - 2),
                   g \in GroupTails}

PlainNames == {h \o b : h \in BillHeads, b \in StrsOver(BillBodyChars, MaxBody)}

OtherNames == DocstringNames \cup {NaN, None, LongDocumentName}

InitNormalize ==
    /\ pc = "call"
    /\ \/ bill_name \in PlainNames
       \/ bill_name \in GroupedNames
       \/ bill_name \in OtherNames
    /\ bill_ret = Unset /\ bill_prev = Unset
    /\ status_date = Unset /\ year_ret = 0
    /\ issues_str = Unset /\ cat_ret = <<>>
    /\ state_name = Unset /\ state_ret = Unset
    /\ csv_rows = <<>> /\ df = <<>> /\ row_i = 0 /\ records = <<>> /\ out_df = <<>>

\* bill_normalized = normalize_bill_number(bill_raw)
Normalize ==
    /\ pc = "call"
    /\ IF normalize_bill_number(bill_name) = ValueError
       THEN pc' = "raised" /\ bill_ret' = bill_ret
       ELSE pc' = "returned" /\ bill_ret' = normalize_bill_number(bill_name)
    /\ UNCHANGED <<bill_name, bill_prev, status_date, year_ret, issues_str, cat_ret,
                   state_name, state_ret, csv_rows, df, row_i, records, out_df>>

\* normalize_bill_number applied to its own output
Renormalize ==
    /\ pc = "returned"
    /\ bill_name' = bill_ret
    /\ bill_prev' = bill_ret
    /\ IF normalize_bill_number(bill_ret) = ValueError
       THEN pc' = "raised" /\ bill_ret' = bill_ret
       ELSE pc' = "renormalized" /\ bill_ret' = normalize_bill_number(bill_ret)
    /\ UNCHANGED <<status_date, year_ret, issues_str, cat_ret,
                   state_name, state_ret, csv_rows, df, row_i, records, out_df>>

NextNormalize == Normalize \/ Renormalize

SpecNormalize == InitNormalize /\ [][NextNormalize]_vars

-----------------------------------------------------------------------------
(* Properties of normalize_bill_number *)

AllIn(s, Class) == \A i \in 1..Len(s) : s[i] \in Class

LetterSet == Range(UpperChars) \cup Range(LowerChars)

IsMissing(v) == v \in {NaN, None}

IsStr(v) == v \notin {NaN, None, Unset, ValueError}

\* a digit run without its leading zeros (a run of zeros keeps its last one)
NoLeadingZeros(ds) ==
    IF \E i \in 1..Len(ds) : ds[i] # "0"
    THEN From(ds, CHOOSE i \in 1..Len(ds) : ds[i] # "0" /\ \A j \in 1..(i - 1) : ds[j] = "0")
    ELSE SubSeq(ds, 1, 1)

\* uppercase letters directly followed by digits, the digits without leading zeros
IsCanonical(v) ==
    \E k \in 1..(Len(v) - 1) :
        /\ AllIn(SubSeq(v, 1, k), UpperSet)
        /\ AllIn(From(v, k + 1), DigitSet)
        /\ (Len(v) - k = 1 \/ v[k + 1] # "0")

\* the raw name starts with 'L.D', an optional period, optional whitespace, a digit
HasLDPrefix(x) == IsStr(x) /\ MaineMatch(x) # <<>>

\* the first contiguous digit run after the legislative-document prefix
LDDigits(x) ==
    LET p1 == IF Len(x) >= 4 /\ x[4] = "." THEN 5 ELSE 4
        p2 == CHOOSE p \in p1..Len(x) : ~IsSpace(x[p]) /\ \A q \in p1..(p - 1) : IsSpace(x[q])
        e  == CHOOSE e \in p2..Len(x) :
                  /\ \A q \in p2..e : IsDigit(x[q])
                  /\ (e = Len(x) \/ ~IsDigit(x[e + 1]))
    IN  SubSeq(x, p2, e)

\* s begins with one or more uppercase letters followed by a digit
BeginsLettersDigit(s) ==
    \E k \in 1..(Len(s) - 1) :
        AllIn(SubSeq(s, 1, k), UpperSet) /\ IsDigit(s[k + 1])

\* C1 (as stated): normalize_bill_number is idempotent on its own output: for a
\* non-missing x, normalizing normalize_bill_number(x) again returns it unchanged.
C1_Idempotent ==
    (pc = "renormalized" /\ IsStr(bill_prev)) => bill_ret = bill_prev

\* C2 (as stated): for every non-missing raw bill name the result is in canonical
\* form: uppercase letters directly followed by digits, no leading zeros.
C2_AlwaysCanonical ==
    (pc = "returned" /\ IsStr(bill_name)) => IsCanonical(bill_ret)

\* C2 (amended): for a non-missing raw bill name with the legislative-document
\* prefix, the call raises ValueError when the digit run is longer than int()
\* accepts and returns a canonical form otherwise; for every other non-missing
\* name the call returns a result without period, whitespace or lowercase letter,
\* which is in canonical form exactly when the cleaned form of the name begins
\* with uppercase letters followed by a digit.
C2_CanonicalWhenMatched ==
    (pc \in {"returned", "raised"} /\ IsStr(bill_name)) =>
        IF HasLDPrefix(bill_name)
        THEN IF IntRaises(MaineMatch(bill_name))
             THEN pc = "raised"
             ELSE /\ pc = "returned"
                  /\ IsCanonical(bill_ret)
                  /\ bill_ret = <<"L", "D">> \o NoLeadingZeros(LDDigits(bill_name))
        ELSE /\ pc = "returned"
             /\ \A i \in 1..Len(bill_ret) :
                    /\ bill_ret[i] # "."
                    /\ ~IsSpace(bill_ret[i])
                    /\ bill_ret[i] \notin Range(LowerChars)
             /\ IsCanonical(bill_ret) <=> BeginsLettersDigit(Cleaned(bill_name))
             /\ ~BeginsLettersDigit(Cleaned(bill_name)) => bill_ret = Cleaned(bill_name)

C2_Witness ==
    /\ pc = "returned"
    /\ bill_name = <<"b", ".", "0", "7">>
    /\ bill_ret = <<"B", "7">>

\* The family of C3: a letter prefix and a numeric run with periods and whitespace
\* interleaved anywhere, then any number of parenthetical groups.
IsSeparator(c) == c = "." \/ IsSpace(c)

FirstParen(x) ==
    IF \E i \in 1..Len(x) : x[i] = "("
    THEN CHOOSE i \in 1..Len(x) : x[i] = "(" /\ \A j \in 1..(i - 1) : x[j] # "("
    ELSE Len(x) + 1

Core(x) == SelectSeq(SubSeq(x, 1, FirstParen(x) - 1), LAMBDA c : ~IsSeparator(c))

RECURSIVE IsGroups(_)
IsGroups(t) ==
    \/ t = <<>>
    \/ /\ IsSeparator(t[1])
       /\ IsGroups(Tail(t))
    \/ /\ t[1] = "("
       /\ \E j \in 2..Len(t) :
              /\ t[j] = ")"
              /\ \A i \in 2..(j - 1) : t[i] \notin {"(", ")"}
              /\ IsGroups(From(t, j + 1))

CoreLetters(x) == SubSeq(Core(x), 1, RunLen(Core(x), 1, LetterSet))

CoreDigits(x) == From(Core(x), Len(CoreLetters(x)) + 1)

InLettersDigitsForm(x) ==
    /\ IsStr(x)
    /\ CoreLetters(x) # <<>>
    /\ CoreDigits(x) # <<>>
    /\ AllIn(CoreDigits(x), DigitSet)
    /\ IsGroups(From(x, FirstParen(x)))

\* C3 (as stated): for a raw name of that family the result is the uppercased
\* letters immediately followed by the numeric run without its leading zeros.
C3_LettersThenNumber ==
    (pc = "returned" /\ InLettersDigitsForm(bill_name)) =>
        bill_ret = upper(CoreLetters(bill_name)) \o NoLeadingZeros(CoreDigits(bill_name))

\* C3 (amended): for a raw name of the family that does not start with the
\* legislative-document prefix the call returns the uppercased letters followed
\* by the numeric run without its leading zeros; for one that starts with the
\* prefix the number is the first contiguous digit run after the prefix (the whole
\* numeric run when no separator is inside it): the call returns 'LD' followed by
\* that run without its leading zeros, and raises ValueError when the run is
\* longer than int() accepts.
C3_LettersThenNumberUnlessLD ==
    (pc \in {"returned", "raised"} /\ InLettersDigitsForm(bill_name)) =>
        IF HasLDPrefix(bill_name)
        THEN IF Len(LDDigits(bill_name)) > IntMaxStrDigits
             THEN pc = "raised"
             ELSE /\ pc = "returned"
                  /\ bill_ret = upper(CoreLetters(bill_name))
                                   \o NoLeadingZeros(LDDigits(bill_name))
                  /\ LDDigits(bill_name) = CoreDigits(bill_name) =>
                         bill_ret = upper(CoreLetters(bill_name))
                                        \o NoLeadingZeros(CoreDigits(bill_name))
        ELSE /\ pc = "returned"
             /\ bill_ret = upper(CoreLetters(bill_name))
                              \o NoLeadingZeros(CoreDigits(bill_name))

C3_Witness ==
    /\ pc = "returned"
    /\ bill_name = <<"l", ".", "d", "0", "7", " ", "(", "b", ")", " ", "(", "7", ")">>
    /\ InLettersDigitsForm(bill_name)
    /\ ~HasLDPrefix(bill_name)
    /\ bill_ret = <<"L", "D", "7">>

\* C4: a raw name that starts with 'L.D', an optional period, optional whitespace
\* and a digit run yields 'LD' followed by the value of that run without leading
\* zeros; whatever follows the run is discarded.
C4_LegislativeDocument ==
    (pc \in {"returned", "raised"} /\ HasLDPrefix(bill_name)) =>
        /\ pc = "returned"
        /\ bill_ret = <<"L", "D">> \o NoLeadingZeros(LDDigits(bill_name))

\* C5: a missing and an empty raw name both yield the missing marker; every other
\* str yields a str, and no call on a str raises.
C5_EmptyOrMissingIsNone ==
    pc \in {"returned", "raised"} =>
        /\ pc = "returned"
        /\ IF IsMissing(bill_name) \/ bill_name = <<>>
           THEN bill_ret = None
           ELSE IsStr(bill_ret)

\* C10: on the general path, a cleaned string that begins with uppercase letters
\* followed by a digit run yields only those letters and that run without leading
\* zeros (what follows the run is dropped); any other cleaned string is returned
\* in full.
C10_TruncatesAfterDigits ==
    (pc \in {"returned", "raised"} /\ IsStr(bill_name) /\ ~HasLDPrefix(bill_name)) =>
        LET c == Cleaned(bill_name)
        IN  /\ pc = "returned"
            /\ IF BeginsLettersDigit(c)
               THEN \E k \in 1..Len(c), e \in 2..Len(c) :
                       /\ k < e
                       /\ AllIn(SubSeq(c, 1, k), UpperSet)
                       /\ AllIn(SubSeq(c, k + 1, e), DigitSet)
                       /\ (e = Len(c) \/ ~IsDigit(c[e + 1]))
                       /\ bill_ret = SubSeq(c, 1, k) \o NoLeadingZeros(SubSeq(c, k + 1, e))
               ELSE bill_ret = c

C10_Witness ==
    /\ pc = "returned"
    /\ bill_name = <<"b", "0", "7", "b">>
    /\ bill_ret = <<"B", "7">>

-----------------------------------------------------------------------------
(* extract_year *)

FallbackYear == 2025

\* re.search(r'(\d{4})', s): the leftmost four consecutive digits, or <<>>
FourDigits(s) ==
    LET Hits == {i \in 1..(Len(s) - 3) : \A k \in i..(i + 3) : IsDigit(s[k])}
    IN  IF Hits = {} THEN <<>>
        ELSE LET i == CHOOSE i \in Hits : \A j \in Hits : i <= j
             IN  SubSeq(s, i, i + 3)

extract_year(sd) ==
    IF isna(sd) THEN FallbackYear
    ELSE IF FourDigits(sd) # <<>> THEN IntValue(ParseInt(FourDigits(sd))) ELSE FallbackYear

MaxDate == 5

DateChars == {"0", "1", "2", "5", "/"}

StatusDates == StrsOver(DateChars, MaxDate) \cup {NaN}

InitYear ==
    /\ pc = "call"
    /\ status_date \in StatusDates
    /\ year_ret = 0
    /\ bill_name = Unset /\ bill_ret = Unset /\ bill_prev = Unset
    /\ issues_str = Unset /\ cat_ret = <<>>
    /\ state_name = Unset /\ state_ret = Unset
    /\ csv_rows = <<>> /\ df = <<>> /\ row_i = 0 /\ records = <<>> /\ out_df = <<>>

\* year = extract_year(row['Status Date'])
ExtractYear ==
    /\ pc = "call"
    /\ year_ret' = extract_year(status_date)
    /\ pc' = "returned"
    /\ UNCHANGED <<bill_name, bill_ret, bill_prev, status_date, issues_str, cat_ret,
                   state_name, state_ret, csv_rows, df, row_i, records, out_df>>

NextYear == ExtractYear

SpecYear == InitYear /\ [][NextYear]_vars

\* the digit runs of s that are exactly four digits long, by their start
ExactRuns(s) ==
    {i \in 1..(Len(s) - 3) :
        /\ \A k \in i..(i + 3) : IsDigit(s[k])
        /\ (i = 1 \/ ~IsDigit(s[i - 1]))
        /\ (i + 3 = Len(s) \/ ~IsDigit(s[i + 4]))}

\* C6 (as stated): extract_year returns the fallback for a missing input or one
\* without a run of exactly four digits, otherwise the first run of exactly four
\* digits as an integer; the result is the fallback or lies in 1000..9999.
C6_FirstRunOfExactlyFour ==
    (pc = "returned" /\ status_date # Unset) =>
        /\ year_ret = IF IsMissing(status_date) \/ ExactRuns(status_date) = {}
                      THEN FallbackYear
                      ELSE LET i == CHOOSE i \in ExactRuns(status_date) :
                                        \A j \in ExactRuns(status_date) : i <= j
                           IN  IntValue(ParseInt(SubSeq(status_date, i, i + 3)))
        /\ (year_ret = FallbackYear \/ year_ret \in 1000..9999)

-----------------------------------------------------------------------------
(* categorize_issues *)

\* the if-statements of lines 79-96, in order
KeywordGroups ==
    <<
      [category |-> "healthcare",
       keywords |-> {<<"h", "e", "a", "l", "t", "h", "c", "a", "r", "e">>,
                     <<"m", "e", "d", "i", "c", "a", "l">>}],
      [category |-> "education",
       keywords |-> {<<"s", "c", "h", "o", "o", "l">>,
                     <<"s", "t", "u", "d", "e", "n", "t">>,
                     <<"e", "d", "u", "c", "a", "t", "o", "r">>}],
      [category |-> "sports",
       keywords |-> {<<"s", "p", "o", "r", "t", "s">>}],
      [category |-> "facilities",
       keywords |-> {<<"f", "a", "c", "i", "l", "i", "t", "i", "e", "s">>,
                     <<"b", "a", "t", "h", "r", "o", "o", "m">>}],
      [category |-> "religious_exemption",
       keywords |-> {<<"r", "e", "l", "i", "g", "i", "o", "u", "s">>}],
      [category |-> "schools_speech",
       keywords |-> {<<"c", "u", "r", "r", "i", "c", "u", "l", "u", "m">>,
                     <<"o", "u", "t", "i", "n", "g">>,
                     <<"d", "o", "n", "'", "t", " ", "s", "a", "y">>}],
      [category |-> "identity_documents",
       keywords |-> {<<"i", "d">>,
                     <<"d", "e", "f", "i", "n", "i", "t", "i", "o", "n", " ", "o", "f", " ", "s", "e", "x">>,
                     <<"r", "e", "-", "d", "e", "f", "i", "n", "i", "t", "i", "o", "n">>}],
      [category |-> "expression",
       keywords |-> {<<"d", "r", "a", "g">>,
                     <<"e", "x", "p", "r", "e", "s", "s", "i", "o", "n">>}],
      [category |-> "public_accommodations",
       keywords |-> {<<"a", "c", "c", "o", "m", "m", "o", "d", "a", "t", "i", "o", "n">>}]
    >>

\* the categories set after the if-statements have run on the text
CategoriesIn(text) ==
    {KeywordGroups[g].category : g \in
        {g \in 1..Len(KeywordGroups) : \E x \in KeywordGroups[g].keywords : Contains(text, x)}}

\* list(a set): the order of the elements is not defined
ListsOf(S) ==
    {l \in [1..Cardinality(S) -> S] : \A i, j \in 1..Cardinality(S) : l[i] = l[j] => i = j}

\* categorize_issues without the lowercasing of the text
categorize_issues_NoLower(s) ==
    IF isna(s) THEN {<<"other">>}
    ELSE IF CategoriesIn(s) # {} THEN ListsOf(CategoriesIn(s)) ELSE {<<"other">>}

\* the lists categorize_issues may return
categorize_issues(s) ==
    IF isna(s) THEN {<<"other">>}
    ELSE IF CategoriesIn(lower(s)) # {}
         THEN ListsOf(CategoriesIn(lower(s)))
         ELSE {<<"other">>}

MaxFragments == 2

IssueFragments ==
    { <<"H", "e", "a", "l", "t", "h", "c", "a", "r", "e">>,
      <<"M", "e", "d", "i", "c", "a", "l", " ">>,
      <<"S", "c", "h", "o", "o", "l">>,
      <<"s", "t", "u", "d", "e", "n", "t">>,
      <<"E", "d", "u", "c", "a", "t", "o", "r">>,
      <<"s", "p", "o", "r", "t", "s">>,
      <<"F", "a", "c", "i", "l", "i", "t", "i", "e", "s">>,
      <<"b", "a", "t", "h", "r", "o", "o", "m">>,
      <<"R", "e", "l", "i", "g", "i", "o", "u", "s">>,
      <<"c", "u", "r", "r", "i", "c", "u", "l", "u", "m">>,
      <<"O", "u", "t", "i", "n", "g">>,
      <<"D", "o", "n", "'", "t", " ", "S", "a", "y">>,
      <<"I", "D">>,
      <<"d", "e", "f", "i", "n", "i", "t", "i", "o", "n", " ", "o", "f", " ", "s", "e", "x">>,
      <<"R", "e", "-", "D", "e", "f", "i", "n", "i", "t", "i", "o", "n">>,
      <<"D", "r", "a", "g">>,
      <<"e", "x", "p", "r", "e", "s", "s", "i", "o", "n">>,
      <<"A", "c", "c", "o", "m", "m", "o", "d", "a", "t", "i", "o", "n">>,
      <<"p", "r", "o", "v", "i", "d", "e", "r">>,
      <<"h", "e", "a", "l">>,
      <<"t", "h", "c", "a", "r", "e">>,
      <<"x">>,
      <<" ">> }

RECURSIVE Joined(_, _)
Joined(F, n) ==
    IF n = 0 THEN {<<>>}
    ELSE Joined(F, n - 1) \cup {s \o f : s \in Joined(F, n - 1), f \in F}

IssueTexts == Joined(IssueFragments, MaxFragments) \cup {NaN}

InitCategorize ==
    /\ pc = "call"
    /\ issues_str \in IssueTexts
    /\ cat_ret = <<>>
    /\ bill_name = Unset /\ bill_ret = Unset /\ bill_prev = Unset
    /\ status_date = Unset /\ year_ret = 0
    /\ state_name = Unset /\ state_ret = Unset
    /\ csv_rows = <<>> /\ df = <<>> /\ row_i = 0 /\ records = <<>> /\ out_df = <<>>

\* categorize_issues(row['Issues'])
Categorize ==
    /\ pc = "call"
    /\ cat_ret' \in categorize_issues(issues_str)
    /\ pc' = "returned"
    /\ UNCHANGED <<bill_name, bill_ret, bill_prev, status_date, year_ret, issues_str,
                   state_name, state_ret, csv_rows, df, row_i, records, out_df>>

NextCategorize == Categorize

SpecCategorize == InitCategorize /\ [][NextCategorize]_vars

\* the glossary's table: keyword -> category
GlossaryTable ==
    { <<<<"h", "e", "a", "l", "t", "h", "c", "a", "r", "e">>, "healthcare">>,
      <<<<"m", "e", "d", "i", "c", "a", "l">>, "healthcare">>,
      <<<<"s", "c", "h", "o", "o", "l">>, "education">>,
      <<<<"s", "t", "u", "d", "e", "n", "t">>, "education">>,
      <<<<"e", "d", "u", "c", "a", "t", "o", "r">>, "education">>,
      <<<<"s", "p", "o", "r", "t", "s">>, "sports">>,
      <<<<"f", "a", "c", "i", "l", "i", "t", "i", "e", "s">>, "facilities">>,
      <<<<"b", "a", "t", "h", "r", "o", "o", "m">>, "facilities">>,
      <<<<"r", "e", "l", "i", "g", "i", "o", "u", "s">>, "religious_exemption">>,
      <<<<"c", "u", "r", "r", "i", "c", "u", "l", "u", "m">>, "schools_speech">>,
      <<<<"o", "u", "t", "i", "n", "g">>, "schools_speech">>,
      <<<<"d", "o", "n", "'", "t", " ", "s", "a", "y">>, "schools_speech">>,
      <<<<"i", "d">>, "identity_documents">>,
      <<<<"d", "e", "f", "i", "n", "i", "t", "i", "o", "n", " ", "o", "f", " ", "s", "e", "x">>, "identity_documents">>,
      <<<<"r", "e", "-", "d", "e", "f", "i", "n", "i", "t", "i", "o", "n">>, "identity_documents">>,
      <<<<"d", "r", "a", "g">>, "expression">>,
      <<<<"e", "x", "p", "r", "e", "s", "s", "i", "o", "n">>, "expression">>,
      <<<<"a", "c", "c", "o", "m", "m", "o", "d", "a", "t", "i", "o", "n">>, "public_accommodations">> }

\* the categories of the glossary with a keyword that occurs in the lowercased text
GlossaryCategories(s) ==
    {e[2] : e \in {e \in GlossaryTable :
        \E i \in 1..Len(s) :
            /\ i + Len(e[1]) - 1 <= Len(s)
            /\ \A k \in 1..Len(e[1]) : LowerOf(s[i + k - 1]) = e[1][k]}}

\* C7: categorize_issues returns a non-empty list without duplicates whose elements
\* are exactly the categories with a keyword occurring in the lowercased text; it
\* is exactly [other] for a missing input or when no group matches, and 'other'
\* never comes with another category.
C7_ExactlyMatchedCategories ==
    (pc = "returned" /\ issues_str # Unset) =>
        /\ Len(cat_ret) >= 1
        /\ \A i, j \in 1..Len(cat_ret) : cat_ret[i] = cat_ret[j] => i = j
        /\ Range(cat_ret) = IF IsMissing(issues_str) \/ GlossaryCategories(issues_str) = {}
                            THEN {"other"}
                            ELSE GlossaryCategories(issues_str)
        /\ "other" \in Range(cat_ret) => cat_ret = <<"other">>

C7_Witness ==
    /\ pc = "returned"
    /\ issues_str = <<"S", "c", "h", "o", "o", "l", "D", "r", "a", "g">>
    /\ Range(cat_ret) = {"education", "expression"}
    /\ Len(cat_ret) = 2

-----------------------------------------------------------------------------
(* State resolution *)

StateTable ==
    <<
      <<<<"A", "l", "a", "b", "a", "m", "a">>, <<"A", "L">>>>,
      <<<<"A", "l", "a", "s", "k", "a">>, <<"A", "K">>>>,
      <<<<"A", "r", "i", "z", "o", "n", "a">>, <<"A", "Z">>>>,
      <<<<"A", "r", "k", "a", "n", "s", "a", "s">>, <<"A", "R">>>>,
      <<<<"C", "a", "l", "i", "f", "o", "r", "n", "i", "a">>, <<"C", "A">>>>,
      <<<<"C", "o", "l", "o", "r", "a", "d", "o">>, <<"C", "O">>>>,
      <<<<"C", "o", "n", "n", "e", "c", "t", "i", "c", "u", "t">>, <<"C", "T">>>>,
      <<<<"D", "e", "l", "a", "w", "a", "r", "e">>, <<"D", "E">>>>,
      <<<<"F", "l", "o", "r", "i", "d", "a">>, <<"F", "L">>>>,
      <<<<"G", "e", "o", "r", "g", "i", "a">>, <<"G", "A">>>>,
      <<<<"H", "a", "w", "a", "i", "i">>, <<"H", "I">>>>,
      <<<<"I", "d", "a", "h", "o">>, <<"I", "D">>>>,
      <<<<"I", "l", "l", "i", "n", "o", "i", "s">>, <<"I", "L">>>>,
      <<<<"I", "n", "d", "i", "a", "n", "a">>, <<"I", "N">>>>,
      <<<<"I", "o", "w", "a">>, <<"I", "A">>>>,
      <<<<"K", "a", "n", "s", "a", "s">>, <<"K", "S">>>>,
      <<<<"K", "e", "n", "t", "u", "c", "k", "y">>, <<"K", "Y">>>>,
      <<<<"L", "o", "u", "i", "s", "i", "a", "n", "a">>, <<"L", "A">>>>,
      <<<<"M", "a", "i", "n", "e">>, <<"M", "E">>>>,
      <<<<"M", "a", "r", "y", "l", "a", "n", "d">>, <<"M", "D">>>>,
      <<<<"M", "a", "s", "s", "a", "c", "h", "u", "s", "e", "t", "t", "s">>, <<"M", "A">>>>,
      <<<<"M", "i", "c", "h", "i", "g", "a", "n">>, <<"M", "I">>>>,
      <<<<"M", "i", "n", "n", "e", "s", "o", "t", "a">>, <<"M", "N">>>>,
      <<<<"M", "i", "s", "s", "i", "s", "s", "i", "p", "p", "i">>, <<"M", "S">>>>,
      <<<<"M", "i", "s", "s", "o", "u", "r", "i">>, <<"M", "O">>>>,
      <<<<"M", "o", "n", "t", "a", "n", "a">>, <<"M", "T">>>>,
      <<<<"N", "e", "b", "r", "a", "s", "k", "a">>, <<"N", "E">>>>,
      <<<<"N", "e", "v", "a", "d", "a">>, <<"N", "V">>>>,
      <<<<"N", "e", "w", " ", "H", "a", "m", "p", "s", "h", "i", "r", "e">>, <<"N", "H">>>>,
      <<<<"N", "e", "w", " ", "J", "e", "r", "s", "e", "y">>, <<"N", "J">>>>,
      <<<<"N", "e", "w", " ", "M", "e", "x", "i", "c", "o">>, <<"N", "M">>>>,
      <<<<"N", "e", "w", " ", "Y", "o", "r", "k">>, <<"N", "Y">>>>,
      <<<<"N", "o", "r", "t", "h", " ", "C", "a", "r", "o", "l", "i", "n", "a">>, <<"N", "C">>>>,
      <<<<"N", "o", "r", "t", "h", " ", "D", "a", "k", "o", "t", "a">>, <<"N", "D">>>>,
      <<<<"O", "h", "i", "o">>, <<"O", "H">>>>,
      <<<<"O", "k", "l", "a", "h", "o", "m", "a">>, <<"O", "K">>>>,
      <<<<"O", "r", "e", "g", "o", "n">>, <<"O", "R">>>>,
      <<<<"P", "e", "n", "n", "s", "y", "l", "v", "a", "n", "i", "a">>, <<"P", "A">>>>,
      <<<<"R", "h", "o", "d", "e", " ", "I", "s", "l", "a", "n", "d">>, <<"R", "I">>>>,
      <<<<"S", "o", "u", "t", "h", " ", "C", "a", "r", "o", "l", "i", "n", "a">>, <<"S", "C">>>>,
      <<<<"S", "o", "u", "t", "h", " ", "D", "a", "k", "o", "t", "a">>, <<"S", "D">>>>,
      <<<<"T", "e", "n", "n", "e", "s", "s", "e", "e">>, <<"T", "N">>>>,
      <<<<"T", "e", "x", "a", "s">>, <<"T", "X">>>>,
      <<<<"U", "t", "a", "h">>, <<"U", "T">>>>,
      <<<<"V", "e", "r", "m", "o", "n", "t">>, <<"V", "T">>>>,
      <<<<"V", "i", "r", "g", "i", "n", "i", "a">>, <<"V", "A">>>>,
      <<<<"W", "a", "s", "h", "i", "n", "g", "t", "o", "n">>, <<"W", "A">>>>,
      <<<<"W", "e", "s", "t", " ", "V", "i", "r", "g", "i", "n", "i", "a">>, <<"W", "V">>>>,
      <<<<"W", "i", "s", "c", "o", "n", "s", "i", "n">>, <<"W", "I">>>>,
      <<<<"W", "y", "o", "m", "i", "n", "g">>, <<"W", "Y">>>>,
      <<<<"D", "i", "s", "t", "r", "i", "c", "t", " ", "o", "f", " ", "C", "o", "l", "u", "m", "b", "i", "a">>, <<"D", "C">>>>
    >>

STATE_ABBREV ==
    [name \in {StateTable[i][1] : i \in 1..Len(StateTable)} |->
        StateTable[CHOOSE i \in 1..Len(StateTable) : StateTable[i][1] = name][2]]

\* s[:2]
FirstTwo(s) == SubSeq(s, 1, IF Len(s) < 2 THEN Len(s) ELSE 2)

\* StateAbbrev with a fallback that is not uppercased
StateAbbrev_NoUpper(state) ==
    IF state \in DOMAIN STATE_ABBREV THEN STATE_ABBREV[state] ELSE FirstTwo(state)

\* STATE_ABBREV.get(row['State'], row['State'][:2].upper())
StateAbbrev(state) ==
    IF state \in DOMAIN STATE_ABBREV THEN STATE_ABBREV[state] ELSE upper(FirstTwo(state))

OtherStateNames ==
    { <<>>, <<"A">>, <<"G", "u", "a", "m">>, <<"P", "u", "e", "r", "t", "o", " ", "R", "i", "c", "o">>, <<"t", "e", "x", "a", "s", " ">>, <<"D", ".", "C", ".">>, <<"u">> }

StateNames ==
    LET Keys == DOMAIN STATE_ABBREV
    IN  Keys \cup {lower(k) : k \in Keys} \cup {upper(k) : k \in Keys}
             \cup {<<" ">> \o k : k \in Keys} \cup {k \o <<" ">> : k \in Keys}
             \cup {SubSeq(k, 1, 1) : k \in Keys} \cup OtherStateNames

InitState ==
    /\ pc = "call"
    /\ state_name \in StateNames
    /\ state_ret = Unset
    /\ bill_name = Unset /\ bill_ret = Unset /\ bill_prev = Unset
    /\ status_date = Unset /\ year_ret = 0
    /\ issues_str = Unset /\ cat_ret = <<>>
    /\ csv_rows = <<>> /\ df = <<>> /\ row_i = 0 /\ records = <<>> /\ out_df = <<>>

\* state_abbrev = STATE_ABBREV.get(row['State'], row['State'][:2].upper())
ResolveState ==
    /\ pc = "call"
    /\ state_ret' = StateAbbrev(state_name)
    /\ pc' = "returned"
    /\ UNCHANGED <<bill_name, bill_ret, bill_prev, status_date, year_ret, issues_str,
                   cat_ret, state_name, csv_rows, df, row_i, records, out_df>>

NextState == ResolveState

SpecState == InitState /\ [][NextState]_vars

\* C9: a state name that is a key of the static map yields its two-letter code;
\* any other name (one differing only in case or surrounding whitespace, one
\* shorter than two characters) yields its first two characters, uppercased.
C9_StateCodeOrFirstTwo ==
    (pc = "returned" /\ state_name # Unset) =>
        IF \E i \in 1..Len(StateTable) : StateTable[i][1] = state_name
        THEN /\ \E i \in 1..Len(StateTable) :
                    StateTable[i][1] = state_name /\ StateTable[i][2] = state_ret
             /\ Len(state_ret) = 2
             /\ AllIn(state_ret, UpperSet)
        ELSE /\ Len(state_ret) = (IF Len(state_name) < 2 THEN Len(state_name) ELSE 2)
             /\ \A i \in 1..Len(state_ret) : state_ret[i] = UpperOf(state_name[i])

C9_Witness ==
    /\ pc = "returned"
    /\ state_name = <<"n", "e", "w", " ", "y", "o", "r", "k">>
    /\ state_ret = <<"N", "E">>

-----------------------------------------------------------------------------
(* build_classification_dict *)

FooterMarker == <<"D", "a", "t", "a", " ", "i", "s", " ", "c", "u", "r", "r", "e", "n", "t">>

\* the mask of lines 108-109 without its notna() term
KeepRow_FooterOnly(row) == ~(~isna(row.State) /\ Contains(row.State, FooterMarker))

\* the mask of lines 108-109:
\* df['State'].notna() & ~df['State'].str.contains('Data is current', na=False)
KeepRow(row) == ~isna(row.State) /\ ~Contains(row.State, FooterMarker)

\* the record of lines 116-148 for a row, with the list categorize_issues returned
Record(row, cats) ==
    [state |-> StateAbbrev(row.State),
     bill_number |-> normalize_bill_number(row.BillName),
     year |-> extract_year(row.StatusDate),
     state_full |-> row.State,
     bill_number_raw |-> row.BillName,
     status |-> row.Status,
     status_detail |-> row.StatusDetail,
     issues_raw |-> row.Issues,
     issue_categories |-> cats,
     label |-> "harmful",
     source |-> "aclu_tracker",
     legiscan_bill_id |-> None,
     legiscan_text_url |-> None]

MaxRows == 3

\* rows as pd.read_csv returns them: every field a str, or NaN for an empty cell
RowPool ==
    { [State |-> <<"T", "e", "x", "a", "s">>,
       BillName |-> <<"S", ".", "B", ".", " ", "1", "2">>,
       Status |-> <<"A", "d", "v", "a", "n", "c", "i", "n", "g">>,
       StatusDetail |-> <<"P", "a", "s", "s", "e", "d", " ", "S", "e", "n", "a", "t", "e">>,
       StatusDate |-> <<"0", "1", "/", "1", "9", "/", "2", "0", "2", "5">>,
       Issues |-> <<"S", "c", "h", "o", "o", "l", " ", "f", "a", "c", "i", "l", "i", "t", "i", "e", "s">>],
      [State |-> <<"M", "a", "i", "n", "e">>,
       BillName |-> <<"L", ".", "D", ".", " ", "1", "1", "3", "4", " ", "(", "S", ".", "P", ".", " ", "4", "6", "1", ")">>,
       Status |-> <<"D", "e", "f", "e", "a", "t", "e", "d">>,
       StatusDetail |-> NaN,
       StatusDate |-> <<"0", "3", "/", "0", "2", "/", "2", "0", "2", "6">>,
       Issues |-> <<"H", "e", "a", "l", "t", "h", "c", "a", "r", "e">>],
      [State |-> NaN,
       BillName |-> <<"H", ".", "B", ".", "1">>,
       Status |-> NaN,
       StatusDetail |-> NaN,
       StatusDate |-> NaN,
       Issues |-> NaN],
      [State |-> <<"D", "a", "t", "a", " ", "i", "s", " ", "c", "u", "r", "r", "e", "n", "t", " ", "a", "s", " ", "o", "f", " ", "0", "1", "/", "1", "9", "/", "2", "0", "2", "6">>,
       BillName |-> NaN,
       Status |-> NaN,
       StatusDetail |-> NaN,
       StatusDate |-> NaN,
       Issues |-> NaN],
      [State |-> <<"G", "u", "a", "m">>,
       BillName |-> NaN,
       Status |-> <<"I", "n", "t", "r", "o", "d", "u", "c", "e", "d">>,
       StatusDetail |-> <<"I", "n", " ", "c", "o", "m", "m", "i", "t", "t", "e", "e">>,
       StatusDate |-> NaN,
       Issues |-> NaN],
      [State |-> <<"N", "o", "t", "e", ":", " ", "D", "a", "t", "a", " ", "i", "s", " ", "c", "u", "r", "r", "e", "n", "t">>,
       BillName |-> <<"H", ".", "B", ".", "7">>,
       Status |-> <<"I", "n", "t", "r", "o", "d", "u", "c", "e", "d">>,
       StatusDetail |-> NaN,
       StatusDate |-> <<"2", "0", "2", "6">>,
       Issues |-> <<"D", "r", "a", "g">>],
      [State |-> <<"d", "a", "t", "a", " ", "i", "s", " ", "c", "u", "r", "r", "e", "n", "t">>,
       BillName |-> <<"S", ".", "3", "5", "0">>,
       Status |-> <<"P", "a", "s", "s", "e", "d">>,
       StatusDetail |-> <<"S", "i", "g", "n", "e", "d">>,
       StatusDate |-> <<"1", "/", "1", "/", "2", "6">>,
       Issues |-> <<"O", "t", "h", "e", "r">>],
      [State |-> <<"M", "a", "i", "n", "e">>,
       BillName |-> LongDocumentName,
       Status |-> <<"D", "e", "a", "d">>,
       StatusDetail |-> NaN,
       StatusDate |-> NaN,
       Issues |-> <<"O", "t", "h", "e", "r">>] }

RECURSIVE SeqsOver(_, _)
SeqsOver(S, n) ==
    IF n = 0 THEN {<<>>}
    ELSE SeqsOver(S, n - 1) \cup {Append(s, x) : s \in SeqsOver(S, n - 1), x \in S}

Init ==
    /\ pc = "start"
    /\ csv_rows \in SeqsOver(RowPool, MaxRows)
    /\ df = <<>> /\ row_i = 0 /\ records = <<>> /\ out_df = <<>>
    /\ bill_name = Unset /\ bill_ret = Unset /\ bill_prev = Unset
    /\ status_date = Unset /\ year_ret = 0
    /\ issues_str = Unset /\ cat_ret = <<>>
    /\ state_name = Unset /\ state_ret = Unset

\* read_csv gives a column whose cells are all empty the dtype float64, and
\* df['State'].str of line 108 raises AttributeError on a column that is not of strs
\* (a frame without rows has an object column, which .str accepts)
StateColumnIsFloat(rows) == Len(rows) >= 1 /\ \A i \in 1..Len(rows) : rows[i].State = NaN

\* lines 105-114: read the rows, drop the footer rows, start the records list
Load ==
    /\ pc = "start"
    /\ IF StateColumnIsFloat(csv_rows)
       THEN pc' = "raised" /\ UNCHANGED <<df, records, row_i>>
       ELSE /\ df' = SelectSeq(csv_rows, KeepRow)
            /\ records' = <<>>
            /\ row_i' = 0
            /\ pc' = "loop"
    /\ UNCHANGED <<bill_name, bill_ret, bill_prev, status_date, year_ret, issues_str,
                   cat_ret, state_name, state_ret, csv_rows, out_df>>

\* lines 115-149: one iteration of the loop over df.iterrows()
BuildRecord ==
    /\ pc = "loop"
    /\ row_i < Len(df)
    /\ LET row == df[row_i + 1]
       IN  /\ bill_name' = row.BillName
           /\ IF normalize_bill_number(row.BillName) = ValueError
              THEN \* line 117 raises: the function ends without a frame
                   /\ pc' = "raised"
                   /\ UNCHANGED <<bill_ret, state_name, state_ret, status_date, year_ret,
                                  issues_str, cat_ret, records, row_i>>
              ELSE /\ bill_ret' = normalize_bill_number(row.BillName)
                   /\ state_name' = row.State
                   /\ state_ret' = StateAbbrev(row.State)
                   /\ status_date' = row.StatusDate
                   /\ year_ret' = extract_year(row.StatusDate)
                   /\ issues_str' = row.Issues
                   /\ \E cats \in categorize_issues(row.Issues) :
                          /\ cat_ret' = cats
                          /\ records' = Append(records, Record(row, cats))
                   /\ row_i' = row_i + 1
                   /\ pc' = pc
    /\ UNCHANGED <<bill_prev, csv_rows, df, out_df>>

\* lines 152-170: the loop is over; the records become the returned frame
Finish ==
    /\ pc = "loop"
    /\ row_i = Len(df)
    /\ out_df' = records
    /\ pc' = "done"
    /\ UNCHANGED <<bill_name, bill_ret, bill_prev, status_date, year_ret, issues_str,
                   cat_ret, state_name, state_ret, csv_rows, df, row_i, records>>

Next == Load \/ BuildRecord \/ Finish

Spec == Init /\ [][Next]_vars

\* a row is retained iff its State is present and does not contain the marker
IsRetained(r) ==
    /\ r.State # NaN
    /\ ~\E i \in 1..Len(r.State) :
            /\ i + Len(FooterMarker) - 1 <= Len(r.State)
            /\ \A k \in 1..Len(FooterMarker) : r.State[i + k - 1] = FooterMarker[k]

RetainedRows == SelectSeq(csv_rows, IsRetained)

SamePassthrough(rec, r) ==
    /\ rec.state_full = r.State
    /\ rec.bill_number_raw = r.BillName
    /\ rec.status = r.Status
    /\ rec.status_detail = r.StatusDetail
    /\ rec.issues_raw = r.Issues

\* C8: one record per retained row, in input order: at every step of the loop the
\* records built so far match, position by position, the retained rows processed so
\* far, and at the end there are as many records as retained rows, each with the
\* passthrough fields of the row at its position.
C8_OneRecordPerRetainedRow ==
    pc \in {"loop", "done"} =>
        /\ Len(records) = row_i
        /\ Len(records) <= Len(RetainedRows)
        /\ \A k \in 1..Len(records) : SamePassthrough(records[k], RetainedRows[k])
        /\ pc = "done" =>
               /\ Len(records) = Len(RetainedRows)
               /\ out_df = records

C8_Witness ==
    /\ pc = "done"
    /\ Len(csv_rows) = 3
    /\ csv_rows[1].State = NaN
    /\ ~IsRetained(csv_rows[2])
    /\ csv_rows[2].State # NaN
    /\ Len(out_df) = 1
    /\ out_df[1].state_full = csv_rows[3].State
    /\ out_df[1].bill_number_raw = <<"L", ".", "D", ".", " ", "1", "1", "3", "4", " ", "(", "S", ".", "P", ".", " ", "4", "6", "1", ")">>
    /\ out_df[1].bill_number = <<"L", "D", "1", "1", "3", "4">>

====
